---------------------------- MODULE Spec2Model ----------------------------
(* A model of the NED FAI Report Generator (src/app.py): the session state  *)
(* of the form (photo slots, draft, preview flag, widget state), one action *)
(* per user interaction (each interaction re-runs the whole script), and    *)
(* the pure functions the script uses (optimize_image, textwrap.wrap, the   *)
(* cover page layout).                                                      *)
EXTENDS Integers, Sequences, FiniteSets, TLC

(***************************************************************************)
(* Program constants                                                       *)
(***************************************************************************)
COVER_WIDTH == 1020
COVER_HEIGHT == 850
MAX_PHOTOS == 5
DEFAULT_MAX_SIZE == 3000
WRAP_WIDTH == 60
MANT_BITS == 53
DIGIT_BITS == 13

CATEGORIES ==
  << "Outer Carton Packaging", "Box Labels",
     "Internal Packaging and Accessories", "Chassis View",
     "Composite Labels", "Internal Configuration", "CPU", "DIMM", "Drives",
     "Fan", "Adapter or IO Card", "PSU", "Internal Wiring" >>

\* the en dash of the source is written "-"
FOOTER_TEXT == "Confidential - Internal Use Only"
\* the position of "CPU" in CATEGORIES
CPU == 7

NumCats == Len(CATEGORIES)
Cats == 1..NumCats
SlotIdx == 0..(MAX_PHOTOS - 1)

\* Python's None
None == [none |-> TRUE]

(***************************************************************************)
(* Bounds of the model                                                     *)
(***************************************************************************)
\* photos are taken in the categories CPU - CatSpan .. CPU
CatSpan == 1
\* photos are taken in the slots 0 .. SlotSpan of a category
SlotSpan == 1
\* at most MaxStaged photo slots are filled in a session
MaxStaged == 3
\* the camera delivers the photos 1 .. MaxPhotoId
MaxPhotoId == 2
\* the description is typed in at most MaxRuns runs of characters
MaxRuns == 3
\* optimize_image is tried on every size 1 .. MaxSmallDim and on CameraDims
MaxSmallDim == 3

VARIABLES
  photos,          \* st.session_state[cat]: the MAX_PHOTOS slots of a category
  cam,             \* the value of the camera_input widget of every slot
  draft,           \* st.session_state.draft
  preview_ready,   \* st.session_state.preview_ready
  shown,           \* the value= parameters of the editor widgets of the last run
  key_as_identity, \* whether the installed Streamlit identifies a widget by
                   \* its key alone, or by its key and its parameters
  description,     \* the text of the Description text_area
  button,          \* the button whose st.button returned True in the last run
  errorMsg,        \* the st.error message of the last run, "" when none
  pdf_pages,       \* the pages saved by the last run, << >> when none
  download,        \* whether the last run offered the download button
  built,           \* the list assigned to st.session_state.draft at line 189
  opt_in,          \* an argument list of optimize_image
  opt_out          \* its result

vars == << photos, cam, draft, preview_ready, shown, key_as_identity,
           description, button, errorMsg, pdf_pages, download, built,
           opt_in, opt_out >>

(***************************************************************************)
(* Python float arithmetic (IEEE-754 binary64, round to nearest, ties to   *)
(* even), as far as optimize_image uses it: int / int, int * float and     *)
(* int(float) on positive values.  A natural number too large for an       *)
(* integer is a sequence of digits in base BASE, most significant first;   *)
(* a float is man * 2^exp with man such a number of exactly MANT_BITS bits.*)
(***************************************************************************)
BASE == 2^DIGIT_BITS

BitLen(n) == CHOOSE k \in 0..31 : n < 2^k /\ (k = 0 \/ 2^(k - 1) <= n)

\* a natural below BASE^2 as digits, without leading zeros
NatToDigits(n) ==
  IF n = 0 THEN << >>
  ELSE IF n < BASE THEN << n >>
  ELSE << n \div BASE, n % BASE >>

LeadingZeros(ds) ==
  CHOOSE k \in 0..Len(ds) :
     /\ \A i \in 1..k : ds[i] = 0
     /\ k < Len(ds) => ds[k + 1] # 0

Strip(ds) == SubSeq(ds, LeadingZeros(ds) + 1, Len(ds))

\* the number of bits of the value of ds
DigitsBitLen(ds) ==
  IF Strip(ds) = << >> THEN 0
  ELSE DIGIT_BITS * (Len(Strip(ds)) - 1) + BitLen(Strip(ds)[1])

\* the value of ds, for a value that fits an integer
DigitsToNat(ds) ==
  IF Strip(ds) = << >> THEN 0
  ELSE IF Len(Strip(ds)) = 1 THEN Strip(ds)[1]
  ELSE Strip(ds)[1] * BASE + Strip(ds)[2]

\* the number of digits BASE - 1 at the low end of ds
TrailingMax(ds) ==
  CHOOSE k \in 0..Len(ds) :
     /\ \A i \in (Len(ds) - k + 1)..Len(ds) : ds[i] = BASE - 1
     /\ k < Len(ds) => ds[Len(ds) - k] # BASE - 1

\* ds + 1
IncDigits(ds) ==
  IF TrailingMax(ds) = Len(ds)
  THEN << 1 >> \o [i \in 1..Len(ds) |-> 0]
  ELSE [i \in 1..Len(ds) |->
          IF i < Len(ds) - TrailingMax(ds) THEN ds[i]
          ELSE IF i = Len(ds) - TrailingMax(ds) THEN ds[i] + 1 ELSE 0]

\* floor(ds / 2^s)
ShiftRight(ds, s) ==
  LET whole == s \div DIGIT_BITS
      part  == s % DIGIT_BITS
      kept  == SubSeq(ds, 1, Len(ds) - whole)
  IN  Strip([i \in 1..Len(kept) |->
               (IF i > 1 THEN (kept[i - 1] % 2^part) * 2^(DIGIT_BITS - part)
                ELSE 0)
               + kept[i] \div 2^part])

\* ds mod 2^s, for s <= 2 * DIGIT_BITS
LowBits(ds, s) ==
  (IF Len(ds) > 1 THEN ds[Len(ds) - 1] * BASE + ds[Len(ds)] ELSE ds[Len(ds)])
     % 2^s

\* ds rounded to MANT_BITS significant bits: the mantissa and the exponent
\* of the float of value ds * 2^exp
RoundToFloat(ds, exp) ==
  LET drop == DigitsBitLen(ds) - MANT_BITS
  IN  IF drop <= 0 THEN [man |-> Strip(ds), exp |-> exp]
      ELSE LET keep == ShiftRight(ds, drop)
               low  == LowBits(ds, drop)
               half == 2^(drop - 1)
               up   == low > half \/ (low = half /\ keep[Len(keep)] % 2 = 1)
               man  == IF up THEN IncDigits(keep) ELSE keep
           IN  IF DigitsBitLen(man) > MANT_BITS
               THEN [man |-> ShiftRight(man, 1), exp |-> exp + drop + 1]
               ELSE [man |-> man, exp |-> exp + drop]

PushDigit(digit, rest) ==
  [digits |-> << digit >> \o rest.digits, rem |-> rest.rem]

\* the next n quotient digits of r / d (r < d), and the remainder left
RECURSIVE LongDiv(_, _, _)
LongDiv(r, d, n) ==
  IF n = 0 THEN [digits |-> << >>, rem |-> r]
  ELSE PushDigit((r * BASE) \div d, LongDiv((r * BASE) % d, d, n - 1))

\* least j with a * 2^j >= b
NormShift(a, b) ==
  CHOOSE j \in 0..31 : a * 2^j >= b /\ (j = 0 \/ a * 2^(j - 1) < b)

\* a / b for ints 0 < a < b, correctly rounded (Python int / int)
FloatDiv(a, b) ==
  LET j    == NormShift(a, b)
      n    == (MANT_BITS - 1) \div DIGIT_BITS
      q    == LongDiv((a * 2^j) % b, b, n)
      man  == << (a * 2^j) \div b >> \o q.digits
      up   == 2 * q.rem > b \/ (2 * q.rem = b /\ man[Len(man)] % 2 = 1)
  IN  RoundToFloat(IF up THEN IncDigits(man) ELSE man, 0 - (j + MANT_BITS - 1))

MulStep(digit, w, low) ==
  [digits |-> << (digit * w + low.carry) % BASE >> \o low.digits,
   carry  |-> (digit * w + low.carry) \div BASE]

\* the low k digits of ds times w: k product digits and the carry out
RECURSIVE MulLow(_, _, _)
MulLow(ds, w, k) ==
  IF k = 0 THEN [digits |-> << >>, carry |-> 0]
  ELSE MulStep(ds[Len(ds) - k + 1], w, MulLow(ds, w, k - 1))

\* ds * w for a natural w < BASE^2 / BASE
MulDigits(ds, w) ==
  LET p == MulLow(ds, w, Len(ds))
  IN  Strip(NatToDigits(p.carry) \o p.digits)

\* w * f for an int w and a float f, correctly rounded (Python int * float)
FloatMul(w, f) == RoundToFloat(MulDigits(f.man, w), f.exp)

\* int(f): truncation toward zero of a non-negative float
FloatToInt(f) ==
  IF f.exp >= 0 THEN DigitsToNat(f.man) * 2^(f.exp)
  ELSE DigitsToNat(ShiftRight(f.man, 0 - f.exp))

Max(a, b) == IF a >= b THEN a ELSE b
Min(a, b) == IF a <= b THEN a ELSE b

(***************************************************************************)
(* optimize_image: an image is its identity and its dimensions             *)
(***************************************************************************)
optimize_image(img, max_size) ==
  LET w == img.w
      h == img.h
      long_edge == Max(w, h)
  IN  IF long_edge > max_size
      THEN LET scale == FloatDiv(max_size, long_edge)
           IN  [id |-> img.id,
                w  |-> FloatToInt(FloatMul(w, scale)),
                h  |-> FloatToInt(FloatMul(h, scale))]
      ELSE img

(***************************************************************************)
(* textwrap.wrap(text, width) with the defaults of TextWrapper.  A text is *)
(* a sequence of runs of equal characters, [ws |-> whether the characters  *)
(* are whitespace, n |-> how many]: letters and whitespace, no hyphens.    *)
(***************************************************************************)
Run(ws, n) == [ws |-> ws, n |-> n]

RECURSIVE TextLen(_)
TextLen(text) ==
  IF text = << >> THEN 0 ELSE text[1].n + TextLen(Tail(text))

\* TextWrapper._split: the maximal runs of whitespace and of non-whitespace
RECURSIVE Split(_)
Split(text) ==
  IF text = << >> THEN << >>
  ELSE LET rest == Split(Tail(text))
       IN  IF text[1].n = 0 THEN rest
           ELSE IF rest # << >> /\ rest[1].ws = text[1].ws
           THEN << Run(text[1].ws, text[1].n + rest[1].n) >> \o Tail(rest)
           ELSE << text[1] >> \o rest

\* chunk.strip() == ''
IsBlank(chunk) == chunk.ws \/ chunk.n = 0

\* the inner loop of _wrap_chunks: how many leading chunks fit the width
Fit(chunks, width) ==
  CHOOSE k \in 0..Len(chunks) :
     /\ TextLen(SubSeq(chunks, 1, k)) <= width
     /\ k < Len(chunks) => TextLen(SubSeq(chunks, 1, k + 1)) > width

\* one pass of the outer loop of _wrap_chunks: the line it builds (empty
\* when it appends none) and the chunks it leaves
WrapLine(chunks, width, started) ==
  LET c0         == IF IsBlank(chunks[1]) /\ started THEN Tail(chunks)
                    ELSE chunks
      k          == Fit(c0, width)
      cur_len    == TextLen(SubSeq(c0, 1, k))
      left       == SubSeq(c0, k + 1, Len(c0))
      long       == left # << >> /\ left[1].n > width
      space_left == width - cur_len
      cur_line   == IF long
                    THEN Append(SubSeq(c0, 1, k), Run(left[1].ws, space_left))
                    ELSE SubSeq(c0, 1, k)
      rest       == IF long
                    THEN << Run(left[1].ws, left[1].n - space_left) >>
                            \o Tail(left)
                    ELSE left
  IN  [line |-> IF cur_line # << >> /\ IsBlank(cur_line[Len(cur_line)])
                THEN SubSeq(cur_line, 1, Len(cur_line) - 1)
                ELSE cur_line,
       rest |-> rest]

RECURSIVE WrapChunks(_, _, _)
WrapChunks(chunks, width, lines) ==
  IF chunks = << >> THEN lines
  ELSE WrapChunks(WrapLine(chunks, width, lines # << >>).rest, width,
                  IF WrapLine(chunks, width, lines # << >>).line # << >>
                  THEN Append(lines,
                              WrapLine(chunks, width, lines # << >>).line)
                  ELSE lines)

wrap(text, width) == WrapChunks(Split(text), width, << >>)

(***************************************************************************)
(* The pages of the document                                               *)
(***************************************************************************)
\* the text inputs the model leaves at their default, the empty string
kmatx_part_number == << >>
halbX_part_number == << >>
sales_order == << >>

DrawText(x, y, field, value, font) ==
  [at |-> << x, y >>, field |-> field, value |-> value, font |-> font]

\* a loop that advances y before it draws a line instead of after
DescriptionLines_Shifted(lines, y) ==
  [k \in 1..Len(lines) |-> DrawText(80, y + 34 * k, "", lines[k], 26)]

\* the loop over the wrapped lines: line k is drawn at y + 34 * (k - 1)
DescriptionLines(lines, y) ==
  [k \in 1..Len(lines) |-> DrawText(80, y + 34 * (k - 1), "", lines[k], 26)]

\* the four fields below the description, the first one drawn at y
CoverFields(y) ==
  << DrawText(60, y, "KMATX Part Number : ", kmatx_part_number, 30),
     DrawText(60, y + 50, "HALBX Part Number : ", halbX_part_number, 30),
     DrawText(60, y + 50 + 50, "Sales Order : ", sales_order, 30),
     DrawText(60, y + 50 + 50 + 50, "Date : %d %b %Y", << >>, 30) >>

\* what the cover page composition draws, in drawing order
CoverPage(text) ==
  LET lines == wrap(text, WRAP_WIDTH)
      y     == 90 + 90 + 45
  IN  [kind |-> "cover",
       size |-> << COVER_WIDTH, COVER_HEIGHT >>,
       ops  |-> << DrawText(COVER_WIDTH \div 2, 90, "NED FAI REPORT", << >>, 56),
                   DrawText(60, 90 + 90, "Description:", << >>, 30) >>
                \o DescriptionLines(lines, y)
                \o CoverFields(y + 34 * Len(lines) + 30)
                \o << DrawText(COVER_WIDTH \div 2, COVER_HEIGHT - 35,
                               FOOTER_TEXT, << >>, 18) >>]

\* render_image: the canvas has the width of the image, the image pasted at
\* the top and the label and the footer in the bar below it
render_image(img, label) ==
  [kind |-> "photo", image |-> img, width |-> img.w, label |-> label,
   footer |-> FOOTER_TEXT]

(***************************************************************************)
(* The script: every interaction runs it from the top                      *)
(***************************************************************************)
IsPhoto(x) == x # None

\* the photos the camera delivers: odd ones exceed the ceiling of
\* optimize_image, even ones do not
RawPhoto(id) ==
  IF id % 2 = 1 THEN [id |-> id, w |-> 4624, h |-> 3468]
  ELSE [id |-> id, w |-> 640, h |-> 480]

\* a camera loop that stores the photo as the camera delivers it
Prepared_Raw == [id \in 1..MaxPhotoId |-> RawPhoto(id)]

\* img, _ = optimize_image(raw), tabulated over the photos of the camera
Prepared ==
  [id \in 1..MaxPhotoId |-> optimize_image(RawPhoto(id), DEFAULT_MAX_SIZE)]

\* a camera loop that stores what the widget returns, a photo or nothing
CameraLoop_Clearing(ph, cm) ==
  [c \in Cats |->
     [i \in SlotIdx |->
        IF IsPhoto(cm[c][i]) THEN Prepared[cm[c][i].id] ELSE None]]

\* the camera input loop: a slot whose widget holds a photo is overwritten
CameraLoop(ph, cm) ==
  [c \in Cats |->
     [i \in SlotIdx |->
        IF IsPhoto(cm[c][i]) THEN Prepared[cm[c][i].id] ELSE ph[c][i]]]

\* a Preview handler that walks the slots of a category from the last one
CatDraft_Reversed(ph, c) ==
  LET imgs == SelectSeq([k \in 1..MAX_PHOTOS |-> ph[c][MAX_PHOTOS - k]], IsPhoto)
  IN  [k \in 1..Len(imgs) |->
         [include |-> TRUE, image |-> imgs[k], label |-> CATEGORIES[c]]]

\* the entries the Preview handler appends for one category
CatDraft(ph, c) ==
  LET imgs == SelectSeq([k \in 1..MAX_PHOTOS |-> ph[c][k - 1]], IsPhoto)
  IN  [k \in 1..Len(imgs) |->
         [include |-> TRUE, image |-> imgs[k], label |-> CATEGORIES[c]]]

\* the local list draft of the Preview handler after the categories 1 .. c
RECURSIVE DraftUpTo(_, _)
DraftUpTo(ph, c) ==
  IF c = 0 THEN << >> ELSE DraftUpTo(ph, c - 1) \o CatDraft(ph, c)

NewDraft(ph) == DraftUpTo(ph, NumCats)

\* the value a keyed widget returns: its state in the browser when the
\* widget of the last run is the same widget, and value= for a new widget
Widget(known, lastValue, state, value) ==
  IF known /\ (key_as_identity \/ lastValue = value) THEN state ELSE value

\* the draft editor: every item takes the values its two widgets return;
\* front is the state of the widgets of the last run in the browser
DraftEditor(d, front) ==
  [idx \in 1..Len(d) |->
     [include |-> Widget(idx <= Len(shown), shown[idx].include,
                         front[idx].include, d[idx].include),
      image   |-> d[idx].image,
      label   |-> Widget(idx <= Len(shown), shown[idx].label,
                         front[idx].label, d[idx].label)]]

\* the value= parameters the editor passes for the draft d
Values(d) ==
  [idx \in 1..Len(d) |-> [include |-> d[idx].include, label |-> d[idx].label]]

IsIncluded(item) == item.include

\* a Convert handler that takes every entry of the draft
Selected_Unfiltered(d) == d

\* selected = [i for i in st.session_state.draft if i["include"]]
Selected(d) == SelectSeq(d, IsIncluded)

\* pdf_pages of the Convert handler
PdfPages(d, text) ==
  << CoverPage(text) >>
     \o [k \in 1..Len(Selected(d)) |->
           render_image(Selected(d)[k].image, Selected(d)[k].label)]

NoPhoto == "Please take/upload at least one photo."
NoSelection == "No images selected for PDF."

\* a Preview handler without the test for an empty draft
Stopped_Never(click, new) == FALSE

\* if not draft: st.error(...); st.stop()
Stopped(click, new) == click = "preview" /\ new = << >>

\* a script that rebuilds the draft in every run that finds a photo
SessionDraft_Rebuilt(click, new, old) ==
  IF new # << >> THEN new ELSE old

\* st.session_state.draft when the editor starts: the Preview handler
\* assigns it only in a run in which its button was pressed
SessionDraft(click, new, old) ==
  IF click = "preview" /\ ~Stopped(click, new) THEN new ELSE old

\* a Convert handler without the test for an empty selection
NoneSelected_Never(d) == FALSE

\* if not selected: st.error(...); st.stop()
NoneSelected(d) == Selected(d) = << >>

\* the end of a run: the Convert handler, for the draft the editor leaves
Convert(cm, text, click, ph, new, stopped, ready, d, edited) ==
  /\ cam' = cm
  /\ description' = text
  /\ photos' = ph
  /\ draft' = edited
  /\ preview_ready' = ready
  /\ shown' = IF ready /\ ~stopped THEN Values(d) ELSE << >>
  /\ built' = IF click = "preview" /\ ~stopped THEN new ELSE built
  /\ button' = click
  /\ errorMsg' = IF stopped THEN NoPhoto
                 ELSE IF click = "convert" /\ NoneSelected(edited)
                 THEN NoSelection ELSE ""
  /\ pdf_pages' = IF click = "convert" /\ ~NoneSelected(edited)
                  THEN PdfPages(edited, text) ELSE << >>
  /\ download' = (click = "convert" /\ ~NoneSelected(edited))
  /\ UNCHANGED << key_as_identity, opt_in, opt_out >>

\* the draft editor, which runs when preview_ready is set and the script
\* was not stopped, for the session draft d
Editor(cm, text, front, click, ph, new, stopped, ready, d) ==
  Convert(cm, text, click, ph, new, stopped, ready, d,
          IF ready /\ ~stopped THEN DraftEditor(d, front) ELSE d)

\* the Preview handler, for the local list new it builds when pressed
Preview(cm, text, front, click, ph, new) ==
  Editor(cm, text, front, click, ph, new, Stopped(click, new),
         preview_ready \/ (click = "preview" /\ ~Stopped(click, new)),
         SessionDraft(click, new, draft))

\* the part of the script below the camera loop, for the photo slots ph
BelowCamera(cm, text, front, click, ph) ==
  Preview(cm, text, front, click, ph, NewDraft(ph))

\* one run of the script: cm are the camera widgets, text the description,
\* front the editor widgets in the browser, click the button pressed ("" for
\* none)
Script(cm, text, front, click) ==
  BelowCamera(cm, text, front, click, CameraLoop(photos, cm))

\* the editor widgets as the browser holds them after the last run
Front == Values(draft)

(***************************************************************************)
(* The inputs of the model                                                 *)
(***************************************************************************)
CaptureCats == (CPU - CatSpan)..CPU
CaptureSlots == 0..SlotSpan

\* the labels the user types into a Label input
EditLabels == { "CPU-Front" }

\* the runs of characters the user types into the description
Runs == { Run(ws, n) : ws \in BOOLEAN, n \in { 1, 59, 120, 180, 300 } }

Staged(ph) == { s \in Cats \X SlotIdx : IsPhoto(ph[s[1]][s[2]]) }

(***************************************************************************)
(* The interactions                                                        *)
(***************************************************************************)
InitSession ==
  /\ photos = [c \in Cats |-> [i \in SlotIdx |-> None]]
  /\ cam = [c \in Cats |-> [i \in SlotIdx |-> None]]
  /\ draft = << >>
  /\ preview_ready = FALSE
  /\ shown = << >>
  /\ key_as_identity \in BOOLEAN
  /\ description = << >>
  /\ button = ""
  /\ errorMsg = ""
  /\ pdf_pages = << >>
  /\ download = FALSE
  /\ built = << >>

Init ==
  /\ InitSession
  /\ opt_in = None
  /\ opt_out = None

\* a photo is taken with the camera widget of slot i of category c
Capture(c, i, id) ==
  /\ IsPhoto(photos[c][i]) \/ Cardinality(Staged(photos)) < MaxStaged
  /\ Script([cam EXCEPT ![c][i] = RawPhoto(id)], description, Front, "")

\* the photo of a camera widget is cleared ("Clear photo")
ClearPhoto(c, i) ==
  /\ IsPhoto(cam[c][i])
  /\ Script([cam EXCEPT ![c][i] = None], description, Front, "")

\* the "Include in PDF" checkbox of entry idx is clicked
ToggleInclude(idx) ==
  /\ idx \in 1..Len(shown)
  /\ Script(cam, description,
            [Front EXCEPT ![idx].include = ~Front[idx].include], "")

\* the Label input of entry idx is changed
EditLabel(idx, label) ==
  /\ idx \in 1..Len(shown)
  /\ label # draft[idx].label
  /\ Script(cam, description, [Front EXCEPT ![idx].label = label], "")

\* characters are typed at the end of the description
TypeDescription(run) ==
  /\ Len(description) < MaxRuns
  /\ Script(cam, Append(description, run), Front, "")

\* the button "Preview Final Draft" is pressed
PreviewFinalDraft == Script(cam, description, Front, "preview")

\* the button "Convert to PDF" is pressed
ConvertToPDF == Script(cam, description, Front, "convert")

\* every interaction, the photos taken in the first slot of a category
Next ==
  \/ \E c \in CaptureCats, id \in 1..MaxPhotoId : Capture(c, 0, id)
  \/ \E c \in CaptureCats : ClearPhoto(c, 0)
  \/ \E idx \in 1..Len(draft) : ToggleInclude(idx)
  \/ \E idx \in 1..Len(draft), label \in EditLabels : EditLabel(idx, label)
  \/ PreviewFinalDraft
  \/ ConvertToPDF

Spec == Init /\ [][Next]_vars

\* the photo slots: photos taken in several slots of a category, and a draft
\* that is built and converted but not edited
NextPhotos ==
  \/ \E c \in CaptureCats, i \in CaptureSlots, id \in 1..MaxPhotoId :
        Capture(c, i, id)
  \/ \E c \in CaptureCats, i \in CaptureSlots : ClearPhoto(c, i)
  \/ PreviewFinalDraft
  \/ ConvertToPDF

SpecPhotos == Init /\ [][NextPhotos]_vars

\* the cover page: one photo in the first CPU slot, any description
NextCover ==
  \/ Capture(CPU, 0, 1)
  \/ \E run \in Runs : TypeDescription(run)
  \/ PreviewFinalDraft
  \/ ConvertToPDF

SpecCover == Init /\ [][NextCover]_vars

\* optimize_image on its own
CameraDims == { 480, 640, 2999, 3000, 3001, 3468, 4032, 4624, 6000 }
Dims == (1..MaxSmallDim) \cup CameraDims

InitOptimize ==
  /\ InitSession
  /\ opt_in \in [img : [id : {1}, w : Dims, h : Dims],
                 max_size : { DEFAULT_MAX_SIZE }]
  /\ opt_out = None

Optimize ==
  /\ opt_in # None
  /\ opt_out = None
  /\ opt_out' = optimize_image(opt_in.img, opt_in.max_size)
  /\ UNCHANGED << photos, cam, draft, preview_ready, shown, key_as_identity,
                  description, button, errorMsg, pdf_pages, download, built,
                  opt_in >>

NextOptimize == Optimize

SpecOptimize == InitOptimize /\ [][NextOptimize]_vars

(***************************************************************************)
(* The properties                                                          *)
(***************************************************************************)
Included(d) == { i \in 1..Len(d) : d[i].include }

\* the index in d of its k-th included entry
NthIncluded(d, k) ==
  CHOOSE i \in Included(d) : Cardinality({ j \in Included(d) : j <= i }) = k

\* slot s comes before slot t in category-then-slot-index order
Before(s, t) == s[1] < t[1] \/ (s[1] = t[1] /\ s[2] < t[2])

\* the position of the non-empty slot s among the non-empty slots of ph
Rank(ph, s) == Cardinality({ t \in Staged(ph) : Before(t, s) }) + 1

\* a photo is taken in slot s in the step
Captured(s) ==
  /\ cam'[s[1]][s[2]] # cam[s[1]][s[2]]
  /\ IsPhoto(cam'[s[1]][s[2]])

\* C1: when at least one entry of the draft is included, Convert to PDF
\* saves the cover followed by one captioned page per included entry, in
\* draft order, each rendered from the image and the current label of its
\* entry; excluded entries give no page.
C1_ExportPages ==
  [][(button' = "convert" /\ Included(draft) # {}) =>
       /\ errorMsg' = "" /\ download'
       /\ Len(pdf_pages') = 1 + Cardinality(Included(draft))
       /\ pdf_pages'[1].kind = "cover"
       /\ \A k \in 1..Cardinality(Included(draft)) :
             /\ pdf_pages'[k + 1].kind = "photo"
             /\ pdf_pages'[k + 1].image = draft[NthIncluded(draft, k)].image
             /\ pdf_pages'[k + 1].label = draft[NthIncluded(draft, k)].label
    ]_vars

\* C1 witness: a draft of two entries, the first excluded and the second
\* relabelled "CPU-Front", converted to a document of two pages
C1_Witness ==
  /\ button = "convert"
  /\ Len(draft) = 2
  /\ ~draft[1].include
  /\ draft[2].include /\ draft[2].label = "CPU-Front"
  /\ Len(pdf_pages) = 2
  /\ pdf_pages[2].label = "CPU-Front"

\* C2: a successful Preview Final Draft assigns to the draft one entry per
\* non-empty photo slot, in category-then-slot-index order, each created
\* with include = TRUE, the image of the slot and the category as label.
C2_BuildDraft ==
  (button = "preview" /\ errorMsg = "") =>
     /\ Len(built) = Cardinality(Staged(photos))
     /\ \A s \in Staged(photos) :
           built[Rank(photos, s)] =
              [include |-> TRUE, image |-> photos[s[1]][s[2]],
               label |-> CATEGORIES[s[1]]]
     /\ Len(draft) = Len(built)
     /\ \A i \in 1..Len(draft) : draft[i].image = built[i].image

\* C2 witness: a draft built from three slots of two categories
C2_Witness ==
  /\ button = "preview"
  /\ Len(built) = 3
  /\ built[1].label = CATEGORIES[CPU - 1]
  /\ built[2].label = CATEGORIES[CPU]
  /\ built[3].label = CATEGORIES[CPU]
  /\ built[2].image # built[3].image

\* C3: after Preview Final Draft is pressed again, every entry has
\* include = TRUE and its category as label, whatever was edited before.
\* The code does not do this: the editor of the same run writes the state
\* of the widgets inc_idx and lbl_idx into the entries just built.
C3_RebuildDiscardsEdits ==
  (button = "preview" /\ errorMsg = "") =>
     \A i \in 1..Len(draft) :
        draft[i].include /\ draft[i].label = built[i].label

\* C4: Preview Final Draft is rejected exactly when every photo slot is
\* empty; it then reports an error and leaves the draft and preview_ready
\* as they were.
C4_BuildRejected ==
  [][button' = "preview" =>
       /\ (errorMsg' = NoPhoto) <=> (Staged(photos) = {})
       /\ errorMsg' = NoPhoto =>
             /\ draft' = draft /\ draft' = << >>
             /\ preview_ready' = preview_ready /\ ~preview_ready'
             /\ built' = built
       /\ errorMsg' # NoPhoto => preview_ready' /\ draft' # << >>
    ]_vars

\* C4 witness: the button was pressed with no photo taken
C4_Witness ==
  /\ button = "preview"
  /\ errorMsg = NoPhoto
  /\ draft = << >>
  /\ ~preview_ready

\* C5: Convert to PDF is rejected when no entry of the draft is included:
\* an error, no page, no download, and the photo slots, the draft and
\* preview_ready as they were.
C5_ExportRejected ==
  [][(button' = "convert" /\ Included(draft) = {}) =>
       /\ errorMsg' = NoSelection
       /\ pdf_pages' = << >>
       /\ ~download'
       /\ photos' = photos
       /\ draft' = draft
       /\ preview_ready' = preview_ready
    ]_vars

\* C5 witness: a draft whose entries are all excluded was converted
C5_Witness ==
  /\ button = "convert"
  /\ errorMsg = NoSelection
  /\ draft # << >>
  /\ pdf_pages = << >>

\* C6: a photo taken after the draft was built leaves the draft as it is,
\* and the pages of a conversion are rendered from the images the draft got
\* when it was built.
C6_DraftIsSource ==
  [][/\ (\E s \in Cats \X SlotIdx : Captured(s)) => draft' = draft
     /\ Len(draft') = Len(built')
     /\ \A i \in 1..Len(draft') : draft'[i].image = built'[i].image
     /\ \A k \in 2..Len(pdf_pages') :
           pdf_pages'[k].image = built'[NthIncluded(draft', k - 1)].image
    ]_vars

\* C6 witness: a conversion while a slot holds a photo taken after the build
C6_Witness ==
  /\ button = "convert"
  /\ Len(pdf_pages) > 1
  /\ \E s \in Staged(photos) :
        \A i \in 1..Len(built) : built[i].image # photos[s[1]][s[2]]

\* C7: only taking a photo changes a photo slot: toggling, relabelling,
\* building and converting leave every slot as it is.
C7_SlotsFrame ==
  [][/\ (cam' = cam \/ button' # "") => photos' = photos
     /\ photos' # photos =>
           /\ button' = ""
           /\ \E s \in Cats \X SlotIdx : Captured(s)
    ]_vars

\* C7 witness: photos were taken, the draft built and edited and the
\* conversion rejected
C7_Witness ==
  /\ Cardinality(Staged(photos)) = 2
  /\ Len(draft) = 2
  /\ draft[1].label = "CPU-Front"
  /\ ~draft[1].include /\ ~draft[2].include
  /\ errorMsg = NoSelection

\* C8: optimize_image returns an image whose longer edge is
\* min(max(w, h), max_size): the image itself when it is within the ceiling,
\* and otherwise both sides scaled by max_size / max(w, h) and truncated.
\* The code does not do this: int(w * (max_size / w)) is max_size - 1 for
\* widths such as 4624, whose float product falls just below max_size.
C8_LongerEdge ==
  opt_out # None =>
     LET w == opt_in.img.w
         h == opt_in.img.h
         m == opt_in.max_size
     IN  /\ Max(opt_out.w, opt_out.h) = Min(Max(w, h), m)
         /\ Max(w, h) <= m => opt_out = opt_in.img
         /\ Max(w, h) > m =>
               /\ opt_out.w = (w * m) \div Max(w, h)
               /\ opt_out.h = (h * m) \div Max(w, h)

\* the drawing operations of the cover of the last conversion
CoverOps == pdf_pages[1].ops
\* how many of them draw a line of the description: all but the title, the
\* "Description:" label, the four fields and the footer
CoverLines == Len(CoverOps) - 7

\* the layout of the cover: line k of the description at 225 + 34 * k, the
\* four fields below them, the footer at COVER_HEIGHT - 35
CoverLayout ==
  /\ CoverLines >= 0
  /\ Split(description) = << >> => CoverLines = 0
  /\ \A k \in 0..(CoverLines - 1) :
        /\ CoverOps[3 + k].at[2] = 225 + 34 * k
        /\ CoverOps[3 + k].field = ""
  /\ \A j \in 0..3 :
        /\ CoverOps[3 + CoverLines + j].at[2] = 225 + 34 * CoverLines + 30 + 50 * j
        /\ CoverOps[3 + CoverLines + j].field =
              << "KMATX Part Number : ", "HALBX Part Number : ",
                 "Sales Order : ", "Date : %d %b %Y" >>[j + 1]
  /\ CoverOps[Len(CoverOps)].at[2] = COVER_HEIGHT - 35
  /\ CoverOps[Len(CoverOps)].field = FOOTER_TEXT

\* C9 as claimed: every description of 300 characters is drawn as 5 lines,
\* and the cover has the layout above.
C9_AnyDescriptionOf300 ==
  (button = "convert" /\ pdf_pages # << >>) =>
     /\ TextLen(description) = 300 => CoverLines = 5
     /\ CoverLayout

\* C9 as amended: a description of 300 letters without whitespace is drawn
\* as 5 lines, and the cover has the layout above.
C9_CoverLayout ==
  (button = "convert" /\ pdf_pages # << >>) =>
     /\ Split(description) = << Run(FALSE, 300) >> => CoverLines = 5
     /\ CoverLayout

\* C9 witness: a cover drawn for a description of 300 letters
C9_Witness ==
  /\ button = "convert"
  /\ pdf_pages # << >>
  /\ Split(description) = << Run(FALSE, 300) >>
  /\ CoverLines = 5

\* C10: each of the 13 x 5 slots holds nothing or one prepared image; a
\* photo taken for a slot replaces the content of that slot and of no other;
\* a slot that holds a photo never becomes empty again.
C10_Slots ==
  [][/\ DOMAIN photos' = Cats
     /\ \A c \in Cats :
           /\ DOMAIN photos'[c] = SlotIdx
           /\ \A i \in SlotIdx :
                 /\ ~IsPhoto(photos'[c][i])
                       \/ photos'[c][i] \in { Prepared[id] : id \in 1..MaxPhotoId }
                 /\ IsPhoto(photos[c][i]) => IsPhoto(photos'[c][i])
                 /\ Captured(<< c, i >>) =>
                       /\ photos'[c][i] =
                             optimize_image(cam'[c][i], DEFAULT_MAX_SIZE)
                       /\ \A s \in Cats \X SlotIdx :
                             s # << c, i >> =>
                                photos'[s[1]][s[2]] = photos[s[1]][s[2]]
                 /\ photos'[c][i] # photos[c][i] => Captured(<< c, i >>)
    ]_vars

\* C10 witness: a slot keeps its photo after its camera widget was cleared
\* and another photo replaced the photo of a second slot
C10_Witness ==
  /\ IsPhoto(photos[CPU][0]) /\ ~IsPhoto(cam[CPU][0])
  /\ IsPhoto(photos[CPU][1]) /\ IsPhoto(cam[CPU][1])
  /\ photos[CPU][1].id # photos[CPU][0].id

=============================================================================
